---- MODULE Spec2Model ----
(***************************************************************************)
(* Model of setup.py: the build script that resolves the pdal-config       *)
(* probe, reads the module version, queries the probe for the Python       *)
(* version, the include flags and the link flags, assembles the build      *)
(* configuration and hands it to the Extension and to setup().             *)
(*                                                                         *)
(* A string is a sequence of symbols.  A symbol is one character           *)
(* ("-", "I", ":", " ") or an atom standing for a fixed run of characters  *)
(* with no whitespace, separator, dot or prefix character in it            *)
(* ("pdalcpp", "/usr/lib").                                                *)
(***************************************************************************)
EXTENDS Integers, Sequences, FiniteSets, TLC

\* Total number of tokens the probe executable writes during one run.
MaxTokens == 3

--------------------------------------------------------------------------
(* Python string primitives used by the script *)

Whitespace == {" ", "\t", "\n"}

\* A byte outside ASCII, as a probe may write it on its standard output.
NonAscii == "\\xe9"

RECURSIVE LStrip(_)
LStrip(s) ==
    IF s # <<>> /\ Head(s) \in Whitespace THEN LStrip(Tail(s)) ELSE s

RECURSIVE RStrip(_)
RStrip(s) ==
    IF s # <<>> /\ s[Len(s)] \in Whitespace
    THEN RStrip(SubSeq(s, 1, Len(s) - 1))
    ELSE s

\* str.strip()
Strip(s) == RStrip(LStrip(s))

RECURSIVE SplitWSFrom(_, _, _)
SplitWSFrom(s, cur, acc) ==
    IF s = <<>>
    THEN IF cur = <<>> THEN acc ELSE Append(acc, cur)
    ELSE IF Head(s) \in Whitespace
         THEN SplitWSFrom(Tail(s), <<>>, IF cur = <<>> THEN acc ELSE Append(acc, cur))
         ELSE SplitWSFrom(Tail(s), Append(cur, Head(s)), acc)

\* str.split() without argument: runs of whitespace separate, no empty item
SplitWS(s) == SplitWSFrom(s, <<>>, <<>>)

RECURSIVE SplitOnFrom(_, _, _, _)
SplitOnFrom(s, sep, cur, acc) ==
    IF s = <<>>
    THEN Append(acc, cur)
    ELSE IF Head(s) = sep
         THEN SplitOnFrom(Tail(s), sep, <<>>, Append(acc, cur))
         ELSE SplitOnFrom(Tail(s), sep, Append(cur, Head(s)), acc)

\* str.split(sep) with a one-character separator: always at least one item
SplitOn(s, sep) == SplitOnFrom(s, sep, <<>>, <<>>)

\* str.startswith(prefix)
StartsWith(s, prefix) ==
    Len(s) >= Len(prefix) /\ SubSeq(s, 1, Len(prefix)) = prefix

\* item[2:]
DropPrefix(item) == SubSeq(item, 3, Len(item))

\* stdout.decode('ascii') succeeds
IsAscii(s) == \A i \in 1..Len(s) : s[i] # NonAscii

Digits == {"0", "1", "2", "3", "4", "5", "6", "7", "8", "9"}

DigitVal(d) ==
    CASE d = "0" -> 0 [] d = "1" -> 1 [] d = "2" -> 2 [] d = "3" -> 3
      [] d = "4" -> 4 [] d = "5" -> 5 [] d = "6" -> 6 [] d = "7" -> 7
      [] d = "8" -> 8 [] d = "9" -> 9

\* int(s) raises ValueError
IntFails(s) == s = <<>> \/ \E i \in 1..Len(s) : s[i] \notin Digits

RECURSIVE IntOf(_)
\* int(s) for a string of decimal digits
IntOf(s) ==
    IF s = <<>> THEN 0
    ELSE 10 * IntOf(SubSeq(s, 1, Len(s) - 1)) + DigitVal(s[Len(s)])

RECURSIVE Flatten(_)
Flatten(ss) == IF ss = <<>> THEN <<>> ELSE Head(ss) \o Flatten(Tail(ss))

SeqsUpTo(S, n) == UNION {[1..k -> S] : k \in 0..n}

NoError == [type |-> "none", line |-> 0]
Raise(t, l) == [type |-> t, line |-> l]

--------------------------------------------------------------------------
(* The environment the script runs in *)

Platforms ==
    { [os_name |-> "posix", system |-> "Linux"],
      [os_name |-> "posix", system |-> "Darwin"],
      [os_name |-> "nt",    system |-> "Windows"] }

\* os.environ restricted to the one variable the script reads, as name/value pairs
Environs ==
    { {}, {<<"PDAL_CONFIG", "">>}, {<<"PDAL_CONFIG", "/opt/pdal/bin/pdal-config">>} }

Argvs == { <<"setup.py", "build_ext">>, <<"setup.py", "clean">> }

RunningMajors == {2, 3}

VersionLine == <<"__version__", " ", "=", " ", "'", "2.3.0", "'", "\n">>
OtherLine == <<"import", " ", "sys", "\n">>

\* Contents of pdal/__init__.py, as lines
InitPyFiles ==
    { <<VersionLine>>, <<OtherLine, VersionLine>>, <<OtherLine>>, <<>> }

\* Tokens a probe may write for each option
VerTokens ==
    { <<"2", ".", "7", ".", "4">>, <<"3", ".", "5", ".", "2">>,
      <<"unknown">>, <<NonAscii>> }

IncTokens ==
    { <<"-", "I", "/a", ":", "/b", ";", "/c">>, <<"-", "I", "/d">>,
      <<"-", "I">>, <<"-", "D", "NDEBUG">> }

LibTokens ==
    { <<"-", "L", "/a", ":", "/b", ";", "/c">>, <<"-", "l", "pdalcpp">>,
      <<"-", "l", "foo">>, <<"-", "pthread">> }

TokensOf(option) ==
    CASE option = "--python-version" -> VerTokens
      [] option = "--includes" -> IncTokens
      [] option = "--libs" -> LibTokens

\* How the probe lays its tokens out on standard output
Layouts ==
    { [lead |-> <<>>, gap |-> <<" ">>, trail |-> <<"\n">>],
      [lead |-> <<" ">>, gap |-> <<" ", "\t">>, trail |-> <<>>] }

RECURSIVE Join(_, _)
Join(toks, gap) ==
    IF toks = <<>> THEN <<>>
    ELSE IF Len(toks) = 1 THEN toks[1]
    ELSE toks[1] \o gap \o Join(Tail(toks), gap)

Render(toks, lay) == lay.lead \o Join(toks, lay.gap) \o lay.trail

\* What subprocess.Popen([pdal_config, option]).communicate() can yield when
\* the probe may still write at most `room` tokens: the launch fails, or the
\* process ends with some standard output and some standard error.
ProbeRuns(option, room) ==
    { [launched |-> FALSE, stdout |-> <<>>, stderr |-> <<>>, tokens |-> <<>>] }
    \cup
    { [launched |-> TRUE, stdout |-> <<>>, stderr |-> e, tokens |-> <<>>] :
        e \in { <<>>, <<"usage">> } }
    \cup
    { [launched |-> TRUE, stdout |-> Render(t, lay), stderr |-> e, tokens |-> t] :
        t \in SeqsUpTo(TokensOf(option), room), lay \in Layouts,
        e \in { <<>>, <<"warning">> } }

\* What the run was, seen from outside the script
Outcome(run) ==
    IF ~run.launched THEN "launch_failed"
    ELSE IF run.stdout = <<>> /\ run.stderr # <<>> THEN "stderr_only"
    ELSE "answered"

--------------------------------------------------------------------------
(* Constants of the script *)

USE_CYTHON == TRUE
DEBUG == TRUE
WinLibraryDirs == << <<"c:/OSGeo4W64/lib">> >>
WinLibraries_short ==
    << <<"pdalcpp">>, <<"pdal_plugin_reader_numpy">>, <<"pdal_util">> >>
WinLibraries ==
    << <<"pdalcpp">>, <<"pdal_plugin_reader_numpy">>, <<"pdal_util">>, <<"ws2_32">> >>
WinCompileArgs == << <<"/DNOMINMAX">> >>
PosixCompileArgs == << <<"-std=c++11">>, <<"-Wno-unknown-pragmas">> >>
DebugCompileArgs == << <<"-g">>, <<"-O0">> >>
PluginLibrary == <<"pdal_plugin_reader_numpy">>
NumpyInclude == <<"numpy/core/include">>
RpathFlag(dir) == <<"-Wl,-rpath,">> \o dir
Sources == << <<"pdal/libpdalpython", IF USE_CYTHON THEN ".pyx" ELSE ".cpp">>,
              <<"pdal/PyPipeline.cpp">> >>

\* The option of each query, in the order of the script
PythonVersionOption == "--python-version"
IncludesOption_libs == "--libs"
IncludesOption == "--includes"
LibsOption == "--libs"

Options == {"--python-version", "--includes", "--libs"}

--------------------------------------------------------------------------
(* Functions of the script *)

\* 'clean' in sys.argv
HasClean(args) == \E i \in 1..Len(args) : args[i] = "clean"

\* lines 42-49
ResolvedPath(env, os) ==
    IF \E e \in env : e[1] = "PDAL_CONFIG"
    THEN (CHOOSE e \in env : e[1] = "PDAL_CONFIG")[2]
    ELSE IF os \in {"nt"} THEN "pdal-config" \o ".bat" ELSE "pdal-config"

\* get_pdal_config(option) for one run of the probe
get_pdal_config(cfg, run, major) ==
    IF cfg = ""
    THEN [raised |-> Raise("OSError", 60), result |-> <<>>]
    ELSE IF ~run.launched
    THEN [raised |-> Raise("OSError", 67), result |-> <<>>]
    ELSE IF run.stderr # <<>> /\ run.stdout = <<>>
    THEN [raised |-> Raise("ValueError", 70), result |-> <<>>]
    ELSE IF major >= 3 /\ ~IsAscii(run.stdout)
    THEN [raised |-> Raise("UnicodeDecodeError", 72), result |-> <<>>]
    ELSE [raised |-> NoError, result |-> Strip(run.stdout)]

\* str.strip("\"'")
RECURSIVE StripQuotes(_)
StripQuotes(s) ==
    IF s # <<>> /\ Head(s) \in {"\"", "'"} THEN StripQuotes(Tail(s))
    ELSE IF s # <<>> /\ s[Len(s)] \in {"\"", "'"}
    THEN StripQuotes(SubSeq(s, 1, Len(s) - 1))
    ELSE s

RECURSIVE FindVersion(_)
\* lines 79-84: the version of the first line starting with __version__,
\* <<>> (None) when there is no such line
FindVersion(lines) ==
    IF lines = <<>> THEN <<>>
    ELSE IF StartsWith(Head(lines), <<"__version__">>)
    THEN StripQuotes(Strip(SplitOn(Head(lines), "=")[2]))
    ELSE FindVersion(Tail(lines))

VersionMissing_never(mv) == FALSE

\* line 86: not module_version
VersionMissing(mv) == mv = <<>>

ProbeGuard_ignoring_clean(cfg, args) == cfg # ""

\* line 118
ProbeGuard(cfg, args) == cfg # "" /\ ~HasClean(args)

RECURSIVE VersionLoop(_, _)
\* lines 124-132: the first item that stops the loop decides
VersionLoop(items, running) ==
    IF items = <<>> THEN NoError
    ELSE LET built_version == SplitOn(Head(items), ".")
         IN IF IntFails(built_version[1]) THEN Raise("ValueError", 128)
            ELSE IF IntOf(built_version[1]) # running THEN Raise("Exception", 132)
            ELSE VersionLoop(Tail(items), running)

ExceptValueError_any(e) == e.type \in {"ValueError", "UnicodeDecodeError", "OSError"}

\* line 135: except ValueError (UnicodeDecodeError is a subclass of it)
ExceptValueError(e) == e.type \in {"ValueError", "UnicodeDecodeError"}

Separator_posix_only(os) == ":"

\* lines 138-140
Separator(os) == IF os \in {"nt"} THEN ";" ELSE ":"

RECURSIVE IncludesLoop(_, _, _)
\* lines 142-144
IncludesLoop(items, sep, dirs) ==
    IF items = <<>> THEN dirs
    ELSE IF StartsWith(Head(items), <<"-", "I">>)
    THEN IncludesLoop(Tail(items), sep, dirs \o SplitOn(DropPrefix(Head(items)), sep))
    ELSE IncludesLoop(Tail(items), sep, dirs)

RECURSIVE LibsLoop_if_not_elif(_, _, _, _)
\* the second test made case-blind and run after the first instead of in its place
LibsLoop_if_not_elif(items, sep, dirs, libs) ==
    IF items = <<>> THEN [library_dirs |-> dirs, libraries |-> libs]
    ELSE LET item == Head(items)
             d == IF StartsWith(item, <<"-", "L">>)
                  THEN dirs \o SplitOn(DropPrefix(item), sep) ELSE dirs
             l == IF StartsWith(item, <<"-", "l">>) \/ StartsWith(item, <<"-", "L">>)
                  THEN Append(libs, DropPrefix(item)) ELSE libs
         IN LibsLoop_if_not_elif(Tail(items), sep, d, l)

RECURSIVE LibsLoop(_, _, _, _)
\* lines 146-150
LibsLoop(items, sep, dirs, libs) ==
    IF items = <<>> THEN [library_dirs |-> dirs, libraries |-> libs]
    ELSE IF StartsWith(Head(items), <<"-", "L">>)
    THEN LibsLoop(Tail(items), sep, dirs \o SplitOn(DropPrefix(Head(items)), sep), libs)
    ELSE IF StartsWith(Head(items), <<"-", "l">>)
    THEN LibsLoop(Tail(items), sep, dirs, Append(libs, DropPrefix(Head(items))))
    ELSE LibsLoop(Tail(items), sep, dirs, libs)

--------------------------------------------------------------------------
(* State *)

VARIABLES
    os_name, system, environ, argv, init_py, running_major, \* the environment
    pc,                  \* the statement the script is at
    pdal_config,         \* module global pdal_config
    module_version,      \* module global module_version, <<>> is None
    version_txt,         \* VERSION.txt: <<>> while not written, then <<its text>>
    include_dirs, library_dirs, libraries,
    extra_compile_args, extra_link_args,
    extensions,          \* the Extension objects constructed, then cythonized
    error,               \* the exception that ended the script, if any
    calls,               \* the probe runs so far: option and outcome
    emitted              \* the tokens the probe wrote, per option

env == <<os_name, system, environ, argv, init_py, running_major>>
config == <<include_dirs, library_dirs, libraries, extra_compile_args, extra_link_args>>
vars == <<env, pc, pdal_config, module_version, version_txt, config,
          extensions, error, calls, emitted>>

Undefined == "<undefined>"

RECURSIVE TotalLen(_)
TotalLen(ss) == IF ss = <<>> THEN 0 ELSE Len(Head(ss)) + TotalLen(Tail(ss))

\* Tokens the probe may still write in this run
Room == MaxTokens - TotalLen(<<emitted["--python-version"], emitted["--includes"],
                              emitted["--libs"]>>)

Init ==
    /\ \E p \in Platforms : os_name = p.os_name /\ system = p.system
    /\ environ \in Environs
    /\ argv \in Argvs
    /\ init_py \in InitPyFiles
    /\ running_major \in RunningMajors
    /\ pc = "resolve_probe_path"
    /\ pdal_config = Undefined
    /\ module_version = <<>>
    /\ version_txt = <<>>
    /\ include_dirs = <<>> /\ library_dirs = <<>> /\ libraries = <<>>
    /\ extra_compile_args = <<>> /\ extra_link_args = <<>>
    /\ extensions = <<>>
    /\ error = NoError
    /\ calls = <<>>
    /\ emitted = [o \in Options |-> <<>>]

Fail(e) == pc' = "failed" /\ error' = e

Probed(option, run) ==
    /\ calls' = Append(calls, [option |-> option, outcome |-> Outcome(run)])
    /\ emitted' = [emitted EXCEPT ![option] = run.tokens]

\* lines 41-49
ResolveProbePath ==
    /\ pc = "resolve_probe_path"
    /\ pdal_config' = ResolvedPath(environ, os_name)
    /\ pc' = "read_version"
    /\ UNCHANGED <<env, module_version, version_txt, config, extensions, error,
                   calls, emitted>>

\* lines 78-87
ReadModuleVersion ==
    /\ pc = "read_version"
    /\ module_version' = FindVersion(init_py)
    /\ IF VersionMissing(module_version')
       THEN Fail(Raise("ValueError", 87))
       ELSE pc' = "write_version_file" /\ UNCHANGED error
    /\ UNCHANGED <<env, pdal_config, version_txt, config, extensions, calls, emitted>>

\* lines 89-103: VERSION.txt is written, README.rst and CHANGES.txt are read
WriteVersionFile ==
    /\ pc = "write_version_file"
    /\ version_txt' = <<module_version>>
    /\ pc' = "platform_defaults"
    /\ UNCHANGED <<env, pdal_config, module_version, config, extensions, error,
                   calls, emitted>>

\* lines 105-114
PlatformDefaults ==
    /\ pc = "platform_defaults"
    /\ include_dirs' = <<>>
    /\ extra_link_args' = <<>>
    /\ IF os_name \in {"nt"}
       THEN /\ library_dirs' = WinLibraryDirs
            /\ libraries' = WinLibraries
            /\ extra_compile_args' = WinCompileArgs
       ELSE /\ library_dirs' = <<>>
            /\ libraries' = <<>>
            /\ extra_compile_args' = <<>>
    /\ pc' = "probe_guard"
    /\ UNCHANGED <<env, pdal_config, module_version, version_txt, extensions,
                   error, calls, emitted>>

\* line 118, guard false: the probe sequence is skipped
SkipProbe ==
    /\ pc = "probe_guard"
    /\ ~ProbeGuard(pdal_config, argv)
    /\ pc' = "finalize"
    /\ UNCHANGED <<env, pdal_config, module_version, version_txt, config,
                   extensions, error, calls, emitted>>

\* lines 118-136
CheckVersionCompatibility ==
    /\ pc = "probe_guard"
    /\ ProbeGuard(pdal_config, argv)
    /\ \E run \in ProbeRuns(PythonVersionOption, Room) :
         LET r == get_pdal_config(pdal_config, run, running_major)
             e == IF r.raised # NoError THEN r.raised
                  ELSE VersionLoop(SplitWS(r.result), running_major)
         IN /\ Probed(PythonVersionOption, run)
            /\ IF e = NoError \/ ExceptValueError(e)
               THEN pc' = "collect_includes" /\ UNCHANGED error
               ELSE Fail(e)
    /\ UNCHANGED <<env, pdal_config, module_version, version_txt, config, extensions>>

\* lines 138-144
CollectIncludes ==
    /\ pc = "collect_includes"
    /\ \E run \in ProbeRuns(IncludesOption, Room) :
         LET r == get_pdal_config(pdal_config, run, running_major)
         IN /\ Probed(IncludesOption, run)
            /\ IF r.raised # NoError
               THEN Fail(r.raised) /\ UNCHANGED include_dirs
               ELSE /\ include_dirs' =
                         IncludesLoop(SplitWS(r.result), Separator(os_name), include_dirs)
                    /\ pc' = "collect_libs"
                    /\ UNCHANGED error
    /\ UNCHANGED <<env, pdal_config, module_version, version_txt, library_dirs,
                   libraries, extra_compile_args, extra_link_args, extensions>>

\* lines 146-150
CollectLibs ==
    /\ pc = "collect_libs"
    /\ \E run \in ProbeRuns(LibsOption, Room) :
         LET r == get_pdal_config(pdal_config, run, running_major)
             c == LibsLoop(SplitWS(r.result), Separator(os_name), library_dirs, libraries)
         IN /\ Probed(LibsOption, run)
            /\ IF r.raised # NoError
               THEN Fail(r.raised) /\ UNCHANGED <<library_dirs, libraries>>
               ELSE /\ library_dirs' = c.library_dirs
                    /\ libraries' = c.libraries
                    /\ pc' = "finalize"
                    /\ UNCHANGED error
    /\ UNCHANGED <<env, pdal_config, module_version, version_txt, include_dirs,
                   extra_compile_args, extra_link_args, extensions>>

\* lines 154-155 and 160-163
CompileArgs(os, args) ==
    LET std == IF os # "nt" THEN PosixCompileArgs ELSE args
    IN IF DEBUG /\ os # "nt" THEN std \o DebugCompileArgs ELSE std

\* lines 152-165: library_dirs[0] raises IndexError on an empty list
Finalize ==
    /\ pc = "finalize"
    /\ include_dirs' = Append(include_dirs, NumpyInclude)
    /\ IF system = "Darwin" /\ library_dirs = <<>>
       THEN /\ extra_compile_args' =
                 (IF os_name # "nt" THEN PosixCompileArgs ELSE extra_compile_args)
            /\ Fail(Raise("IndexError", 158))
            /\ UNCHANGED <<libraries, extra_link_args>>
       ELSE /\ extra_compile_args' = CompileArgs(os_name, extra_compile_args)
            /\ extra_link_args' =
                 (IF system = "Darwin"
                  THEN Append(extra_link_args, RpathFlag(library_dirs[1]))
                  ELSE extra_link_args)
            /\ libraries' = Append(libraries, PluginLibrary)
            /\ pc' = "build_extension"
            /\ UNCHANGED error
    /\ UNCHANGED <<env, pdal_config, module_version, version_txt, library_dirs,
                   extensions, calls, emitted>>

\* lines 166-176
BuildExtension ==
    /\ pc = "build_extension"
    /\ extensions' =
         << [name |-> "*", sources |-> Sources,
             include_dirs |-> include_dirs, library_dirs |-> library_dirs,
             extra_compile_args |-> extra_compile_args, libraries |-> libraries,
             extra_link_args |-> extra_link_args,
             cythonized |-> (USE_CYTHON /\ ~HasClean(argv))] >>
    /\ pc' = "setup"
    /\ UNCHANGED <<env, pdal_config, module_version, version_txt, config, error,
                   calls, emitted>>

\* lines 178-208
Setup ==
    /\ pc = "setup"
    /\ pc' = "done"
    /\ UNCHANGED <<env, pdal_config, module_version, version_txt, config,
                   extensions, error, calls, emitted>>

Next ==
    \/ ResolveProbePath
    \/ ReadModuleVersion
    \/ WriteVersionFile
    \/ PlatformDefaults
    \/ SkipProbe
    \/ CheckVersionCompatibility
    \/ CollectIncludes
    \/ CollectLibs
    \/ Finalize
    \/ BuildExtension
    \/ Setup

Spec == Init /\ [][Next]_vars

--------------------------------------------------------------------------
(* Vocabulary of the properties, stated on what the probe wrote *)

Built == extensions # <<>>
Handed == extensions[1]
Clean == "clean" \in {argv[i] : i \in 1..Len(argv)}
OptionsCalled == [i \in 1..Len(calls) |-> calls[i].option]
Answered(option) ==
    \E i \in 1..Len(calls) : calls[i] = [option |-> option, outcome |-> "answered"]

HasFlag(tok, letter) == Len(tok) >= 2 /\ tok[1] = "-" /\ tok[2] = letter
Rest(tok) == [i \in 1..(Len(tok) - 2) |-> tok[i + 2]]

\* The pieces of s between the occurrences of sep, by position
CutsOf(s, sep) == {i \in 1..Len(s) : s[i] = sep}
NthCut(s, sep, k) ==
    CHOOSE i \in CutsOf(s, sep) : Cardinality({j \in CutsOf(s, sep) : j < i}) = k - 1
Segments(s, sep) ==
    LET n == Cardinality(CutsOf(s, sep))
    IN [k \in 1..(n + 1) |->
          SubSeq(s, IF k = 1 THEN 1 ELSE NthCut(s, sep, k - 1) + 1,
                    IF k = n + 1 THEN Len(s) ELSE NthCut(s, sep, k) - 1)]

PathsOf(toks, letter, sep) ==
    Flatten([i \in 1..Len(toks) |->
               IF HasFlag(toks[i], letter) THEN Segments(Rest(toks[i]), sep) ELSE <<>>])
NamesOf(toks) ==
    Flatten([i \in 1..Len(toks) |->
               IF HasFlag(toks[i], "l") THEN <<Rest(toks[i])>> ELSE <<>>])

PathSep == IF os_name = "nt" THEN ";" ELSE ":"
NumpyDir == <<"numpy/core/include">>
PluginName == <<"pdal_plugin_reader_numpy">>
FixedWindowsLibraries ==
    << <<"pdalcpp">>, <<"pdal_plugin_reader_numpy">>, <<"pdal_util">>, <<"ws2_32">> >>
FixedWindowsLibraryDirs == << <<"c:/OSGeo4W64/lib">> >>
DefaultLibraries == IF os_name = "nt" THEN FixedWindowsLibraries ELSE <<>>
DefaultLibraryDirs == IF os_name = "nt" THEN FixedWindowsLibraryDirs ELSE <<>>
AllOptions == <<"--python-version", "--includes", "--libs">>
Probing == {"probe_guard", "collect_includes", "collect_libs"}
PastProbing == {"finalize", "build_extension", "setup", "done"}

--------------------------------------------------------------------------
(* C1 *)

FailedRun(c) == c.outcome \in {"launch_failed", "stderr_only"}
Tolerated(c) == c.option = "--python-version" /\ c.outcome = "stderr_only"

\* C1: a probe run that could not be launched, or that wrote only to standard
\* error, ends the script with that error (OSError, ValueError) as the last
\* probe run and with no Extension, except the error-only run of
\* --python-version: after it the script goes on to query --includes.
C1_ProbeFailureAborts ==
    \A i \in 1..Len(calls) :
        LET c == calls[i]
        IN /\ (FailedRun(c) /\ ~Tolerated(c)) =>
                 /\ i = Len(calls)
                 /\ pc = "failed"
                 /\ ~Built
                 /\ error.type = (IF c.outcome = "launch_failed"
                                  THEN "OSError" ELSE "ValueError")
           /\ (Tolerated(c) /\ i = Len(calls)) =>
                 pc = "collect_includes" /\ error = NoError
           /\ (Tolerated(c) /\ i < Len(calls)) => calls[i + 1].option = "--includes"

C1_Witness ==
    /\ calls = << [option |-> "--python-version", outcome |-> "stderr_only"],
                  [option |-> "--includes", outcome |-> "launch_failed"] >>
    /\ pc = "failed"
    /\ error = Raise("OSError", 67)

--------------------------------------------------------------------------
(* C2 *)

\* C2: once --includes was answered, the include_dirs handed to the Extension
\* are the separator-split remainders of the -I tokens, in the order written,
\* followed by the numpy include directory; other tokens contribute nothing.
C2_IncludeDirs ==
    (Built /\ Answered("--includes")) =>
        Handed.include_dirs =
            PathsOf(emitted["--includes"], "I", PathSep) \o <<NumpyDir>>

C2_Witness ==
    /\ Built
    /\ Len(emitted["--includes"]) = 3
    /\ \E i \in 1..3 : ~HasFlag(emitted["--includes"][i], "I")
    /\ \E i \in 1..3 : Len(Segments(Rest(emitted["--includes"][i]), PathSep)) = 2
    /\ Len(Handed.include_dirs) = 4

--------------------------------------------------------------------------
(* C3 *)

\* C3: off Windows, once --libs was answered, the library_dirs handed to the
\* Extension are the ':'-split remainders of the -L tokens in order, and the
\* libraries are the remainders of the -l tokens in order followed by one
\* final pdal_plugin_reader_numpy; no token lands in both lists and a token
\* with neither prefix lands in none.
C3_LibsOffWindows ==
    (Built /\ os_name # "nt" /\ Answered("--libs")) =>
        /\ Handed.library_dirs = PathsOf(emitted["--libs"], "L", ":")
        /\ Handed.libraries = NamesOf(emitted["--libs"]) \o <<PluginName>>

C3_Witness ==
    /\ Built
    /\ os_name # "nt"
    /\ Len(emitted["--libs"]) = 3
    /\ \E i \in 1..3 : HasFlag(emitted["--libs"][i], "L")
    /\ \E i \in 1..3 : HasFlag(emitted["--libs"][i], "l")
    /\ \E i \in 1..3 : ~HasFlag(emitted["--libs"][i], "L")
                       /\ ~HasFlag(emitted["--libs"][i], "l")
    /\ Len(Handed.libraries) = 2

--------------------------------------------------------------------------
(* C4 *)

\* The leading component of a version token: what stands before its first dot
Major(tok) ==
    IF CutsOf(tok, ".") = {} THEN tok ELSE SubSeq(tok, 1, NthCut(tok, ".", 1) - 1)
Numeric(s) == s # <<>> /\ \A i \in 1..Len(s) : s[i] \in Digits
\* The running major version, written out (it is 2 or 3)
RunningText == IF running_major = 2 THEN <<"2">> ELSE <<"3">>
Differs(tok) == Numeric(Major(tok)) /\ Major(tok) # RunningText

\* C4: once --python-version was answered, the script ends with the version
\* mismatch error if any token written has a major component different from
\* the running major version, whatever the other tokens are and wherever it
\* stands; and the check raises nothing when every token has the running
\* major version.
C4_MismatchAlwaysSignalled ==
    (Len(calls) >= 1
       /\ calls[1] = [option |-> "--python-version", outcome |-> "answered"]) =>
        LET toks == emitted["--python-version"]
        IN /\ (\E i \in 1..Len(toks) : Differs(toks[i])) =>
                  pc = "failed" /\ error = Raise("Exception", 132)
           /\ (\A i \in 1..Len(toks) : Major(toks[i]) = RunningText) =>
                  ~(Len(calls) = 1 /\ pc = "failed")

--------------------------------------------------------------------------
(* C5 *)

\* C5 as claimed: with 'clean' among the arguments the probe is never run and
\* the libraries, include_dirs and library_dirs handed to the Extension are
\* the platform defaults: empty off Windows, the fixed directory and library
\* list on Windows.
C5_CleanHandsDefaults ==
    Clean =>
        /\ calls = <<>>
        /\ Built =>
             /\ Handed.libraries = DefaultLibraries
             /\ Handed.include_dirs = <<>>
             /\ Handed.library_dirs = DefaultLibraryDirs

\* C5 as amended: with 'clean' among the arguments the probe is never run;
\* the library_dirs handed to the Extension are the platform default, the
\* include_dirs are the numpy include directory alone, and the libraries are
\* the platform default followed by pdal_plugin_reader_numpy.
C5_CleanHandsDefaultsPlusFixed ==
    Clean =>
        /\ calls = <<>>
        /\ Built =>
             /\ Handed.libraries = DefaultLibraries \o <<PluginName>>
             /\ Handed.include_dirs = <<NumpyDir>>
             /\ Handed.library_dirs = DefaultLibraryDirs

C5_Witness == Clean /\ Built /\ pc = "done" /\ os_name = "nt"

--------------------------------------------------------------------------
(* C6 *)

\* C6 as claimed: on Windows the libraries handed to the Extension are exactly
\* the four fixed names, each once.
C6_WindowsExactlyFixed ==
    (Built /\ os_name = "nt") =>
        /\ {Handed.libraries[i] : i \in 1..Len(Handed.libraries)} =
             {FixedWindowsLibraries[i] : i \in 1..4}
        /\ Len(Handed.libraries) = 4

\* C6 as amended: on Windows the libraries handed to the Extension are the
\* four fixed names in their order, then the remainders of the -l tokens the
\* probe wrote (none when the probe was not run), then
\* pdal_plugin_reader_numpy once more.
C6_WindowsFixedThenProbed ==
    (Built /\ os_name = "nt") =>
        Handed.libraries =
            FixedWindowsLibraries \o NamesOf(emitted["--libs"]) \o <<PluginName>>

C6_Witness ==
    /\ Built
    /\ os_name = "nt"
    /\ \E i \in 1..Len(emitted["--libs"]) : emitted["--libs"][i] = <<"-", "l", "foo">>
    /\ Len(Handed.libraries) >= 6

--------------------------------------------------------------------------
(* C7 *)

NoVersionLine ==
    \A i \in 1..Len(init_py) : init_py[i] = <<>> \/ init_py[i][1] # "__version__"

\* C7: when no line of pdal/__init__.py starts with __version__, the script
\* ends with the missing-version error before any probe run, before
\* VERSION.txt is written and before the Extension is constructed.
C7_MissingVersionFailsFirst ==
    NoVersionLine =>
        /\ calls = <<>>
        /\ version_txt = <<>>
        /\ ~Built
        /\ pc \in {"resolve_probe_path", "read_version", "failed"}
        /\ pc = "failed" => error = Raise("ValueError", 87)

C7_Witness == NoVersionLine /\ init_py # <<>> /\ pc = "failed"

--------------------------------------------------------------------------
(* C8 *)

\* C8: a build without 'clean' whose resolved probe path is empty fails; it
\* produces no Extension and never reaches the final assembly of the
\* configuration without a probe query.
C8_EmptyPathFails ==
    (pc # "resolve_probe_path" /\ pdal_config = "" /\ ~Clean) =>
        /\ ~Built
        /\ pc \notin PastProbing

--------------------------------------------------------------------------
(* C9 *)

IsPrefix(a, b) == Len(a) <= Len(b) /\ a = SubSeq(b, 1, Len(a))

\* C9 as claimed: a completed build without 'clean' ran the probe exactly
\* three times, with --python-version, --includes, --libs in that order, and
\* the platform defaults (Windows library directory and list, compiler flags)
\* are in place only after the --libs results were collected.
C9_DefaultsAfterLibs ==
    /\ (pc = "done" /\ ~Clean) => OptionsCalled = AllOptions
    /\ (library_dirs # <<>> \/ libraries # <<>> \/ extra_compile_args # <<>>) =>
          Answered("--libs")

\* C9 as amended: the probe is only ever run with --python-version, then
\* --includes, then --libs, no option twice; a completed build without
\* 'clean' ran all three, or none when the resolved probe path is empty; the
\* Windows defaults (library directory, library list, /DNOMINMAX) are in place
\* before the first probe run, and the POSIX compiler flags, the link flags,
\* the numpy include directory and the final plugin library are added only
\* after the probe sequence.
C9_DefaultsThenProbesThenFlags ==
    /\ IsPrefix(OptionsCalled, AllOptions)
    /\ (pc = "done" /\ ~Clean) =>
          OptionsCalled = (IF pdal_config = "" THEN <<>> ELSE AllOptions)
    /\ pc \in {"resolve_probe_path", "read_version", "write_version_file",
               "platform_defaults"} => calls = <<>>
    /\ (pc = "probe_guard" /\ os_name = "nt") =>
          /\ calls = <<>>
          /\ library_dirs = FixedWindowsLibraryDirs
          /\ libraries = FixedWindowsLibraries
          /\ extra_compile_args = << <<"/DNOMINMAX">> >>
    /\ pc \in Probing =>
          /\ extra_compile_args = (IF os_name = "nt" THEN << <<"/DNOMINMAX">> >> ELSE <<>>)
          /\ extra_link_args = <<>>
          /\ \A i \in 1..Len(include_dirs) : include_dirs[i] # NumpyDir
          /\ IsPrefix(DefaultLibraries, libraries)
    /\ (pc \in {"build_extension", "setup", "done"} /\ os_name # "nt") =>
          extra_compile_args =
              << <<"-std=c++11">>, <<"-Wno-unknown-pragmas">>, <<"-g">>, <<"-O0">> >>

C9_Witness ==
    /\ pc = "done"
    /\ ~Clean
    /\ os_name = "nt"
    /\ OptionsCalled = AllOptions
    /\ Len(libraries) > 5

--------------------------------------------------------------------------
(* C10 *)

\* C10: on Darwin every run that gets to the final assembly, a 'clean' run
\* and a run whose --libs answer has no -L token included, reaches the
\* Extension with exactly one link flag, the rpath of the first library
\* directory; on every other platform the Extension gets no link flag.
C10_RpathOnDarwin ==
    /\ ~(pc = "failed" /\ error = Raise("IndexError", 158))
    /\ Built =>
          Handed.extra_link_args =
              (IF system = "Darwin"
               THEN << <<"-Wl,-rpath,">> \o Handed.library_dirs[1] >>
               ELSE <<>>)

====
